---- MODULE Spec2Model ----
(***************************************************************************)
(* Model of the rubEns pointer-driven drawing tools (EllipseTool,          *)
(* FreeHandTool), the InverseColorEffect and the Canvas they act on.       *)
(*                                                                         *)
(* A canvas is a width x height grid of RGBA pixels.  Numbers that the     *)
(* code keeps as JavaScript reals (pointer coordinates) are exact          *)
(* rationals <<numerator, denominator>>; Math.floor is floor division.     *)
(***************************************************************************)
EXTENDS Integers, Sequences, FiniteSets, TLC

(***************************************************************************)
(* Bounds                                                                  *)
(***************************************************************************)
CanvasWidth == 3
CanvasHeight == 3
\* pointer coordinates are delivered in units of 1/SubPixel of a CSS pixel
SubPixel == 2
\* page position of the canvas' bounding rectangle
RectLeft == 1
RectTop == 2
\* number of events (pointer events, effect applications) of one behaviour
MaxEvents == 3
\* largest ratio of the displayed size of a canvas to its backing size
MaxScale == 2

\* the null reference
Null == [null |-> TRUE]

(***************************************************************************)
(* Pixel buffers (ImageData)                                               *)
(***************************************************************************)
Pixels == (0 .. CanvasWidth - 1) \X (0 .. CanvasHeight - 1)

Transparent == <<0, 0, 0, 0>>
Black == <<0, 0, 0, 255>>

\* content of a canvas after clearRect over its whole area
Cleared == [p \in Pixels |-> Transparent]

\* the buffer with every pixel of the set S written with colour c
Paint(buffer, S, c) == [p \in Pixels |-> IF p \in S THEN c ELSE buffer[p]]

Abs(n) == IF n < 0 THEN -n ELSE n
Min(a, b) == IF a < b THEN a ELSE b
Max(a, b) == IF a < b THEN b ELSE a

(***************************************************************************)
(* Points and numbers                                                      *)
(***************************************************************************)
Math_floor(r) == <<r[1] \div r[2], 1>>

Point(x, y) == [x |-> x, y |-> y]

\* the integer pixel a floored point designates
PixelOf(p) == <<p.x[1] \div p.x[2], p.y[1] \div p.y[2]>>

\* p.x = Math.floor(p.x); p.y = Math.floor(p.y)
FloorPoint(p) == Point(Math_floor(p.x), Math_floor(p.y))

(***************************************************************************)
(* Drawing primitives                                                      *)
(***************************************************************************)
\* The pixels visited from (x, y) to (x1, y1): at each step the accumulated
\* error term decides which axes advance (dx, dy, sx, sy are those of the
\* whole segment).
RECURSIVE LineSteps(_, _, _, _, _, _, _, _, _)
LineSteps(x, y, x1, y1, dx, dy, sx, sy, err) ==
    IF x = x1 /\ y = y1
    THEN {<<x, y>>}
    ELSE LET stepX == 2 * err > -dy
             stepY == 2 * err < dx
         IN  {<<x, y>>} \cup
             LineSteps(IF stepX THEN x + sx ELSE x,
                       IF stepY THEN y + sy ELSE y,
                       x1, y1, dx, dy, sx, sy,
                       err - (IF stepX THEN dy ELSE 0) + (IF stepY THEN dx ELSE 0))

\* pixels of the segment between two integer pixel points
LinePixels(p0, p1) ==
    LET a == PixelOf(p0)
        b == PixelOf(p1)
        dx == Abs(b[1] - a[1])
        dy == Abs(b[2] - a[2])
    IN  LineSteps(a[1], a[2], b[1], b[2], dx, dy,
                  IF a[1] < b[1] THEN 1 ELSE -1,
                  IF a[2] < b[2] THEN 1 ELSE -1,
                  dx - dy)

\* Line.paintItBlack: the colour function of the free-hand stroke
Line_paintItBlack == Black

\* Line.draw(imageData, p0, p1, colorFn): writes outside the buffer are dropped
Line_draw(imageData, p0, p1, color) ==
    Paint(imageData, LinePixels(p0, p1) \cap Pixels, color)

\* (x, y) lies inside or on the ellipse inscribed in the rectangle of
\* corners (xa, ya), (xb, yb); doubled coordinates keep the centre integral
InEllipse(x, y, xa, ya, xb, yb) ==
    LET w == xb - xa
        h == yb - ya
        u == 2 * x - (xa + xb)
        v == 2 * y - (ya + yb)
    IN  /\ xa <= x /\ x <= xb /\ ya <= y /\ y <= yb
        /\ u * u * h * h + v * v * w * w <= w * w * h * h

\* outline of the ellipse inscribed in the rectangle whose opposite corners
\* are p0 and p1, given in either order; a rectangle of zero width or height
\* collapses to a line or a point
EllipsePixels(p0, p1) ==
    LET a == PixelOf(p0)
        b == PixelOf(p1)
        xa == Min(a[1], b[1])
        xb == Max(a[1], b[1])
        ya == Min(a[2], b[2])
        yb == Max(a[2], b[2])
        In(x, y) == InEllipse(x, y, xa, ya, xb, yb)
    IN  { q \in (xa .. xb) \X (ya .. yb) :
            /\ In(q[1], q[2])
            /\ \/ ~In(q[1] - 1, q[2]) \/ ~In(q[1] + 1, q[2])
               \/ ~In(q[1], q[2] - 1) \/ ~In(q[1], q[2] + 1) }

\* Ellipse.drawFromBoundingRect(p0, p1, imageData)
Ellipse_drawFromBoundingRect(p0, p1, imageData) ==
    Paint(imageData, EllipsePixels(p0, p1) \cap Pixels, Black)

\* ColorEffects.inverseColors(imageData): R, G, B become 255 - channel,
\* alpha is left alone
ColorEffects_inverseColors(imageData) ==
    [p \in Pixels |-> <<255 - imageData[p][1], 255 - imageData[p][2],
                        255 - imageData[p][3], imageData[p][4]>>]


(***************************************************************************)
(* State                                                                   *)
(***************************************************************************)
VARIABLES
    canvas,              \* pixel content of every canvas of the workspace
    canvasBoundingRect,  \* Canvas.canvasBoundingRect of the canvases
    selectedLayer,       \* workspace.drawingLayers.selectedLayer
    activeTool,          \* the tool whose handlers are registered
    firstPoint,          \* EllipseTool.firstPoint
    secondPoint,         \* EllipseTool.secondPoint
    lastPosition,        \* FreeHandTool.lastPosition
    lastCall,            \* the handler that ran last: its event, the canvas
                         \* operations it made in order, whether it threw
    nEvents,             \* number of events handled so far
    initialCanvas,       \* pixel content of every canvas at start
    coordinates,         \* the Point getMouseEventCoordinates returned last
    registeredHandlers,  \* the handlers registered with the event manager
    handlersBefore       \* registeredHandlers when registerEvents was last called

vars == <<canvas, canvasBoundingRect, selectedLayer, activeTool, firstPoint,
          secondPoint, lastPosition, lastCall, nEvents, initialCanvas,
          coordinates, registeredHandlers, handlersBefore>>

\* workingCanvas is the preview surface, drawingCanvas the committed surface
\* (the canvas of one layer), otherLayer the canvas of another layer
CanvasIds == {"workingCanvas", "drawingCanvas", "otherLayer"}
\* the layers of the workspace, each with its canvas
Layers == {[canvas |-> "drawingCanvas"], [canvas |-> "otherLayer"]}
Tools == {"EllipseTool", "FreeHandTool"}

\* pointer events over the canvas: client coordinates in 1/SubPixel units,
\* one position per pixel column/row, some on and some off the pixel grid
ClientXs == { SubPixel * (RectLeft + i) + (i % SubPixel) : i \in 0 .. CanvasWidth - 1 }
ClientYs == { SubPixel * (RectTop + j) + ((j + 1) % SubPixel) : j \in 0 .. CanvasHeight - 1 }
MouseEvents == [clientX : ClientXs, clientY : ClientYs]

Call(handler, event, accesses, threw) ==
    [handler |-> handler, event |-> event, accesses |-> accesses, threw |-> threw]

(***************************************************************************)
(* Canvas                                                                  *)
(***************************************************************************)
\* updateDimensions sets the CSS size to the backing size, updateBoundingRect
\* then reads the rectangle of the node
Canvas_updateBoundingRect ==
    [left |-> RectLeft, top |-> RectTop,
     right |-> RectLeft + CanvasWidth, bottom |-> RectTop + CanvasHeight]

\* Canvas.getMouseEventCoordinates(event)
Canvas_getMouseEventCoordinates(event) ==
    LET boundingRect == canvasBoundingRect
        mouseX == <<event.clientX - SubPixel * boundingRect.left, SubPixel>>
        mouseY == <<event.clientY - SubPixel * boundingRect.top, SubPixel>>
    IN  Point(<<mouseX[1] * (boundingRect.right - boundingRect.left),
                mouseX[2] * CanvasWidth>>,
              <<mouseY[1] * (boundingRect.bottom - boundingRect.top),
                mouseY[2] * CanvasHeight>>)

Get(id) == <<"getImageData", id>>
Set(id) == <<"setImageData", id>>
Clear(id) == <<"clear", id>>

\* Canvas.clear() on canvas id of the contents c
Canvas_clear(c, id) == [c EXCEPT ![id] = Cleared]

(***************************************************************************)
(* EllipseTool                                                             *)
(***************************************************************************)
\* variant: the shape is drawn on a fresh buffer, not on the canvas' data
EllipseTool_apply_FreshBuffer(c, image, p0, p1) ==
    IF p0 = Null \/ p1 = Null
    THEN [canvas |-> c, accesses |-> <<Get(image)>>, threw |-> TRUE]
    ELSE [canvas |-> [c EXCEPT ![image] = Ellipse_drawFromBoundingRect(p0, p1, Cleared)],
          accesses |-> <<Get(image), Set(image)>>,
          threw |-> FALSE]

\* EllipseTool.apply(image, null) with the given points on the contents c:
\* the resulting contents, the canvas operations made, and whether
\* Ellipse.drawFromBoundingRect threw on a null point
EllipseTool_apply(c, image, p0, p1) ==
    IF p0 = Null \/ p1 = Null
    THEN [canvas |-> c, accesses |-> <<Get(image)>>, threw |-> TRUE]
    ELSE [canvas |-> [c EXCEPT ![image] = Ellipse_drawFromBoundingRect(p0, p1, c[image])],
          accesses |-> <<Get(image), Set(image)>>,
          threw |-> FALSE]

EllipseTool_onMouseDown(event) ==
    /\ firstPoint' = FloorPoint(Canvas_getMouseEventCoordinates(event))
    /\ lastCall' = Call("EllipseTool.onMouseDown", event, <<>>, FALSE)
    /\ UNCHANGED <<secondPoint, canvas>>

\* variant: no firstPoint === null guard
EllipseTool_onMouseUp_NoGuard(event) ==
    LET p == FloorPoint(Canvas_getMouseEventCoordinates(event))
        r == EllipseTool_apply(canvas, "drawingCanvas", firstPoint, p)
    IN  IF r.threw
        THEN /\ secondPoint' = p
             /\ canvas' = r.canvas
             /\ lastCall' = Call("EllipseTool.onMouseUp", event, r.accesses, TRUE)
             /\ UNCHANGED firstPoint
        ELSE /\ canvas' = Canvas_clear(r.canvas, "workingCanvas")
             /\ firstPoint' = Null
             /\ secondPoint' = Null
             /\ lastCall' = Call("EllipseTool.onMouseUp", event,
                                 r.accesses \o <<Clear("workingCanvas")>>, FALSE)

\* variant: commits with the second point of the last move, when there is one
EllipseTool_onMouseUp_StaleSecondPoint(event) ==
    IF firstPoint = Null
    THEN /\ lastCall' = Call("EllipseTool.onMouseUp", event, <<>>, FALSE)
         /\ UNCHANGED <<firstPoint, secondPoint, canvas>>
    ELSE LET p == IF secondPoint = Null
                  THEN FloorPoint(Canvas_getMouseEventCoordinates(event))
                  ELSE secondPoint
             r == EllipseTool_apply(canvas, "drawingCanvas", firstPoint, p)
         IN  /\ canvas' = Canvas_clear(r.canvas, "workingCanvas")
             /\ firstPoint' = Null
             /\ secondPoint' = Null
             /\ lastCall' = Call("EllipseTool.onMouseUp", event,
                                 r.accesses \o <<Clear("workingCanvas")>>, FALSE)

\* variant: the preview is not cleared after the commit
EllipseTool_onMouseUp_NoClear(event) ==
    IF firstPoint = Null
    THEN /\ lastCall' = Call("EllipseTool.onMouseUp", event, <<>>, FALSE)
         /\ UNCHANGED <<firstPoint, secondPoint, canvas>>
    ELSE LET p == FloorPoint(Canvas_getMouseEventCoordinates(event))
             r == EllipseTool_apply(canvas, "drawingCanvas", firstPoint, p)
         IN  /\ canvas' = r.canvas
             /\ firstPoint' = Null
             /\ secondPoint' = Null
             /\ lastCall' = Call("EllipseTool.onMouseUp", event, r.accesses, FALSE)

EllipseTool_onMouseUp(event) ==
    IF firstPoint = Null
    THEN /\ lastCall' = Call("EllipseTool.onMouseUp", event, <<>>, FALSE)
         /\ UNCHANGED <<firstPoint, secondPoint, canvas>>
    ELSE LET p == FloorPoint(Canvas_getMouseEventCoordinates(event))
             r == EllipseTool_apply(canvas, "drawingCanvas", firstPoint, p)
         IN  IF r.threw
             THEN /\ secondPoint' = p
                  /\ canvas' = r.canvas
                  /\ lastCall' = Call("EllipseTool.onMouseUp", event, r.accesses, TRUE)
                  /\ UNCHANGED firstPoint
             ELSE /\ canvas' = Canvas_clear(r.canvas, "workingCanvas")
                  /\ firstPoint' = Null
                  /\ secondPoint' = Null
                  /\ lastCall' = Call("EllipseTool.onMouseUp", event,
                                      r.accesses \o <<Clear("workingCanvas")>>, FALSE)

\* variant: the preview is not cleared before the shape is rendered
EllipseTool_onMouseMove_NoClear(event) ==
    IF firstPoint = Null
    THEN /\ lastCall' = Call("EllipseTool.onMouseMove", event, <<>>, FALSE)
         /\ UNCHANGED <<firstPoint, secondPoint, canvas>>
    ELSE LET p == FloorPoint(Canvas_getMouseEventCoordinates(event))
             r == EllipseTool_apply(canvas, "workingCanvas", firstPoint, p)
         IN  /\ secondPoint' = p
             /\ canvas' = r.canvas
             /\ lastCall' = Call("EllipseTool.onMouseMove", event, r.accesses, r.threw)
             /\ UNCHANGED firstPoint

\* variant: no firstPoint === null guard
EllipseTool_onMouseMove_NoGuard(event) ==
    LET p == FloorPoint(Canvas_getMouseEventCoordinates(event))
        r == EllipseTool_apply(Canvas_clear(canvas, "workingCanvas"),
                               "workingCanvas", firstPoint, p)
    IN  /\ secondPoint' = p
        /\ canvas' = r.canvas
        /\ lastCall' = Call("EllipseTool.onMouseMove", event,
                            <<Clear("workingCanvas")>> \o r.accesses, r.threw)
        /\ UNCHANGED firstPoint

\* variant: the in-progress shape is rendered on the drawing canvas
EllipseTool_onMouseMove_OnDrawing(event) ==
    IF firstPoint = Null
    THEN /\ lastCall' = Call("EllipseTool.onMouseMove", event, <<>>, FALSE)
         /\ UNCHANGED <<firstPoint, secondPoint, canvas>>
    ELSE LET p == FloorPoint(Canvas_getMouseEventCoordinates(event))
             r == EllipseTool_apply(Canvas_clear(canvas, "workingCanvas"),
                                    "drawingCanvas", firstPoint, p)
         IN  /\ secondPoint' = p
             /\ canvas' = r.canvas
             /\ lastCall' = Call("EllipseTool.onMouseMove", event,
                                 <<Clear("workingCanvas")>> \o r.accesses, r.threw)
             /\ UNCHANGED firstPoint

EllipseTool_onMouseMove(event) ==
    IF firstPoint = Null
    THEN /\ lastCall' = Call("EllipseTool.onMouseMove", event, <<>>, FALSE)
         /\ UNCHANGED <<firstPoint, secondPoint, canvas>>
    ELSE LET p == FloorPoint(Canvas_getMouseEventCoordinates(event))
             r == EllipseTool_apply(Canvas_clear(canvas, "workingCanvas"),
                                    "workingCanvas", firstPoint, p)
         IN  /\ secondPoint' = p
             /\ canvas' = r.canvas
             /\ lastCall' = Call("EllipseTool.onMouseMove", event,
                                 <<Clear("workingCanvas")>> \o r.accesses, r.threw)
             /\ UNCHANGED firstPoint

(***************************************************************************)
(* FreeHandTool                                                            *)
(***************************************************************************)
\* FreeHandTool.drawLine(image, currentPosition) on the contents c
FreeHandTool_drawLine(c, image, last, currentPosition) ==
    IF last = Null \/ currentPosition = Null
    THEN [canvas |-> c, accesses |-> <<Get(image)>>, threw |-> TRUE]
    ELSE [canvas |-> [c EXCEPT ![image] =
                        Line_draw(c[image], last, currentPosition, Line_paintItBlack)],
          accesses |-> <<Get(image), Set(image)>>,
          threw |-> FALSE]

\* the body of FreeHandTool.onMouseMove as a function of the state it reads:
\* the contents, lastPosition, canvas operations and throw it leaves
\* variant: the anchor is not advanced to the current position
FreeHandTool_move_KeepAnchor(event) ==
    IF lastPosition = Null
    THEN [canvas |-> canvas, lastPosition |-> lastPosition,
          accesses |-> <<>>, threw |-> FALSE]
    ELSE LET currentPosition == FloorPoint(Canvas_getMouseEventCoordinates(event))
             r == FreeHandTool_drawLine(canvas, "drawingCanvas",
                                        lastPosition, currentPosition)
         IN  [canvas |-> r.canvas, lastPosition |-> lastPosition,
              accesses |-> r.accesses, threw |-> r.threw]

FreeHandTool_move(event) ==
    IF lastPosition = Null
    THEN [canvas |-> canvas, lastPosition |-> lastPosition,
          accesses |-> <<>>, threw |-> FALSE]
    ELSE LET currentPosition == FloorPoint(Canvas_getMouseEventCoordinates(event))
             r == FreeHandTool_drawLine(canvas, "drawingCanvas",
                                        lastPosition, currentPosition)
         IN  [canvas |-> r.canvas,
              lastPosition |-> IF r.threw THEN lastPosition ELSE currentPosition,
              accesses |-> r.accesses, threw |-> r.threw]

\* variant: no lastPosition !== null guard
FreeHandTool_onMouseDown_NoGuard(event) ==
    /\ lastPosition' = FloorPoint(Canvas_getMouseEventCoordinates(event))
    /\ lastCall' = Call("FreeHandTool.onMouseDown", event, <<>>, FALSE)
    /\ UNCHANGED canvas

FreeHandTool_onMouseDown(event) ==
    IF lastPosition # Null
    THEN /\ lastCall' = Call("FreeHandTool.onMouseDown", event, <<>>, FALSE)
         /\ UNCHANGED <<lastPosition, canvas>>
    ELSE /\ lastPosition' = FloorPoint(Canvas_getMouseEventCoordinates(event))
         /\ lastCall' = Call("FreeHandTool.onMouseDown", event, <<>>, FALSE)
         /\ UNCHANGED canvas

FreeHandTool_onMouseMove(event) ==
    LET r == FreeHandTool_move(event)
    IN  /\ canvas' = r.canvas
        /\ lastPosition' = r.lastPosition
        /\ lastCall' = Call("FreeHandTool.onMouseMove", event, r.accesses, r.threw)

\* variant: lastPosition is not reset after the last line
FreeHandTool_onMouseUp_NoReset(event) ==
    LET r == FreeHandTool_move(event)
    IN  /\ canvas' = r.canvas
        /\ lastPosition' = r.lastPosition
        /\ lastCall' = Call("FreeHandTool.onMouseUp", event, r.accesses, r.threw)

\* variant: the release only ends the gesture
FreeHandTool_onMouseUp_NoDraw(event) ==
    /\ lastPosition' = Null
    /\ lastCall' = Call("FreeHandTool.onMouseUp", event, <<>>, FALSE)
    /\ UNCHANGED canvas

FreeHandTool_onMouseUp(event) ==
    LET r == FreeHandTool_move(event)
    IN  /\ canvas' = r.canvas
        /\ lastPosition' = IF r.threw THEN r.lastPosition ELSE Null
        /\ lastCall' = Call("FreeHandTool.onMouseUp", event, r.accesses, r.threw)

(***************************************************************************)
(* InverseColorEffect                                                      *)
(***************************************************************************)
\* variant: no selectedLayer === null check (reading .canvas of null throws)
InverseColorEffect_apply_NoCheck ==
    IF selectedLayer = Null
    THEN /\ lastCall' = Call("InverseColorEffect.apply", Null, <<>>, TRUE)
         /\ UNCHANGED canvas
    ELSE /\ canvas' = [canvas EXCEPT ![selectedLayer.canvas] =
                         ColorEffects_inverseColors(canvas[selectedLayer.canvas])]
         /\ lastCall' = Call("InverseColorEffect.apply", Null,
                             <<Get(selectedLayer.canvas), Set(selectedLayer.canvas)>>,
                             FALSE)

\* variant: the inverted data is not written back
InverseColorEffect_apply_NoWriteBack ==
    /\ lastCall' = Call("InverseColorEffect.apply", Null,
                        IF selectedLayer = Null THEN <<>>
                        ELSE <<Get(selectedLayer.canvas)>>, FALSE)
    /\ UNCHANGED canvas

InverseColorEffect_apply ==
    IF selectedLayer = Null
    THEN /\ lastCall' = Call("InverseColorEffect.apply", Null, <<>>, FALSE)
         /\ UNCHANGED canvas
    ELSE /\ canvas' = [canvas EXCEPT ![selectedLayer.canvas] =
                         ColorEffects_inverseColors(canvas[selectedLayer.canvas])]
         /\ lastCall' = Call("InverseColorEffect.apply", Null,
                             <<Get(selectedLayer.canvas), Set(selectedLayer.canvas)>>,
                             FALSE)


(***************************************************************************)
(* Event registration                                                      *)
(***************************************************************************)
Handler(owner, eventType, selector) ==
    [owner |-> owner, eventTypes |-> <<eventType>>, selector |-> selector]

\* the eventHandlers list of a tool or effect: initEventHandlers pushes three
\* handlers, the Effect constructor leaves the list empty
eventHandlers(owner) ==
    IF owner \in Tools
    THEN <<Handler(owner, "mousedown", "canvas"),
           Handler(owner, "mouseup", "body"),
           Handler(owner, "mousemove", "body")>>
    ELSE <<>>

Owners == Tools \cup {"InverseColorEffect"}

\* the handlers every Canvas registers in its constructor
CanvasHandlers ==
    UNION { {Handler(id, "resize", ""), Handler(id, "rubens_documentResized", "")} :
              id \in CanvasIds }

\* EventManager.registerEventHandler / unregisterEventHandler on a handler set
EventManager_registerEventHandler(registered, handler) == registered \cup {handler}
EventManager_unregisterEventHandler(registered, handler) == registered \ {handler}

\* variant: the loop starts at the second handler
RECURSIVE Effect_registerEvents_SkipFirst(_, _)
Effect_registerEvents_SkipFirst(handlers, registered) ==
    IF Len(handlers) <= 1
    THEN registered
    ELSE Effect_registerEvents_SkipFirst(
             Tail(handlers),
             EventManager_registerEventHandler(registered, handlers[2]))

\* for (let handler of this.eventHandlers) eventManager.registerEventHandler(handler)
RECURSIVE Effect_registerEvents(_, _)
Effect_registerEvents(handlers, registered) ==
    IF handlers = <<>>
    THEN registered
    ELSE Effect_registerEvents(
             Tail(handlers),
             EventManager_registerEventHandler(registered, Head(handlers)))

\* for (let handler of this.eventHandlers) eventManager.unregisterEventHandler(handler)
RECURSIVE Effect_unregisterEvents(_, _)
Effect_unregisterEvents(handlers, registered) ==
    IF handlers = <<>>
    THEN registered
    ELSE Effect_unregisterEvents(
             Tail(handlers),
             EventManager_unregisterEventHandler(registered, Head(handlers)))

Range(seq) == { seq[i] : i \in DOMAIN seq }

(***************************************************************************)
(* Behaviours of the tools                                                 *)
(***************************************************************************)
\* state after construction: blank canvases, both tools idle, one of the
\* tools holding the pointer handlers, any layer (or none) selected
Init ==
    /\ canvas = [id \in CanvasIds |-> Cleared]
    /\ initialCanvas = canvas
    /\ canvasBoundingRect = Canvas_updateBoundingRect
    /\ selectedLayer \in Layers \cup {Null}
    /\ activeTool \in Tools
    /\ firstPoint = Null
    /\ secondPoint = Null
    /\ lastPosition = Null
    /\ lastCall = Call("constructor", Null, <<>>, FALSE)
    /\ nEvents = 0
    /\ coordinates = Null
    /\ registeredHandlers =
         Effect_registerEvents(eventHandlers(activeTool), CanvasHandlers)
    /\ handlersBefore = CanvasHandlers

\* one more event is delivered; nothing rebinds the workspace
Deliver ==
    /\ nEvents < MaxEvents
    /\ nEvents' = nEvents + 1
    /\ UNCHANGED <<canvasBoundingRect, selectedLayer, activeTool, initialCanvas,
                   coordinates, registeredHandlers, handlersBefore>>

EllipseMouseDown ==
    \E event \in MouseEvents :
        /\ activeTool = "EllipseTool" /\ Deliver
        /\ EllipseTool_onMouseDown(event)
        /\ UNCHANGED lastPosition

EllipseMouseUp ==
    \E event \in MouseEvents :
        /\ activeTool = "EllipseTool" /\ Deliver
        /\ EllipseTool_onMouseUp(event)
        /\ UNCHANGED lastPosition

EllipseMouseMove ==
    \E event \in MouseEvents :
        /\ activeTool = "EllipseTool" /\ Deliver
        /\ EllipseTool_onMouseMove(event)
        /\ UNCHANGED lastPosition

FreeHandMouseDown ==
    \E event \in MouseEvents :
        /\ activeTool = "FreeHandTool" /\ Deliver
        /\ FreeHandTool_onMouseDown(event)
        /\ UNCHANGED <<firstPoint, secondPoint>>

FreeHandMouseUp ==
    \E event \in MouseEvents :
        /\ activeTool = "FreeHandTool" /\ Deliver
        /\ FreeHandTool_onMouseUp(event)
        /\ UNCHANGED <<firstPoint, secondPoint>>

FreeHandMouseMove ==
    \E event \in MouseEvents :
        /\ activeTool = "FreeHandTool" /\ Deliver
        /\ FreeHandTool_onMouseMove(event)
        /\ UNCHANGED <<firstPoint, secondPoint>>

ApplyEffect ==
    /\ Deliver
    /\ InverseColorEffect_apply
    /\ UNCHANGED <<firstPoint, secondPoint, lastPosition>>

Next ==
    \/ EllipseMouseDown
    \/ EllipseMouseUp
    \/ EllipseMouseMove
    \/ FreeHandMouseDown
    \/ FreeHandMouseUp
    \/ FreeHandMouseMove
    \/ ApplyEffect

Spec == Init /\ [][Next]_vars

(***************************************************************************)
(* Behaviours of the effect on arbitrary layer contents                    *)
(***************************************************************************)
\* colours over 8-bit channels, extremes and interior values
SampleColours ==
    {<<0, 0, 0, 0>>, <<0, 0, 0, 255>>, <<255, 255, 255, 255>>,
     <<1, 128, 254, 7>>, <<200, 0, 55, 128>>}

\* buffers that alternate two colours
SampleBuffers ==
    { [p \in Pixels |-> IF (p[1] + p[2]) % 2 = 0 THEN c1 ELSE c2] :
        c1 \in SampleColours, c2 \in SampleColours }

InitEffect ==
    /\ canvas \in [CanvasIds -> SampleBuffers]
    /\ canvas["workingCanvas"] = Cleared
    /\ initialCanvas = canvas
    /\ canvasBoundingRect = Canvas_updateBoundingRect
    /\ selectedLayer \in Layers \cup {Null}
    /\ activeTool = "EllipseTool"
    /\ firstPoint = Null
    /\ secondPoint = Null
    /\ lastPosition = Null
    /\ lastCall = Call("constructor", Null, <<>>, FALSE)
    /\ nEvents = 0
    /\ coordinates = Null
    /\ registeredHandlers =
         Effect_registerEvents(eventHandlers(activeTool), CanvasHandlers)
    /\ handlersBefore = CanvasHandlers

NextEffect == ApplyEffect

SpecEffect == InitEffect /\ [][NextEffect]_vars


(***************************************************************************)
(* Properties                                                              *)
(***************************************************************************)
\* every step of a behaviour runs one handler: lastCall' is that call
Ran(h) == lastCall'.handler = h

\* number of write operations (setImageData, clear) a call made on a canvas
Writes(call, id) ==
    Cardinality({ i \in DOMAIN call.accesses : call.accesses[i] \in {Set(id), Clear(id)} })

\* number of operations of any kind a call made on a canvas
Touches(call, id) ==
    Cardinality({ i \in DOMAIN call.accesses : call.accesses[i][2] = id })

\* the floored buffer position of the event a call received
EventPoint(call) == FloorPoint(Canvas_getMouseEventCoordinates(call.event))

BlackPixels(buffer) == { p \in Pixels : buffer[p] = Black }

\* C1: the ellipse tool's pointer-down and pointer-move handlers never write
\* the drawing canvas; its pointer-up handler writes it only while Dragging,
\* and then exactly once.
C1_DrawingWrittenOnceOnMouseUp ==
    [][ /\ (Ran("EllipseTool.onMouseDown") \/ Ran("EllipseTool.onMouseMove")
            \/ (Ran("EllipseTool.onMouseUp") /\ firstPoint = Null))
           => /\ Writes(lastCall', "drawingCanvas") = 0
              /\ canvas'["drawingCanvas"] = canvas["drawingCanvas"]
        /\ (Ran("EllipseTool.onMouseUp") /\ firstPoint # Null)
           => Writes(lastCall', "drawingCanvas") = 1 ]_vars

\* a gesture has been completed: the release wrote the drawing canvas once
C1_Witness ==
    /\ lastCall.handler = "EllipseTool.onMouseUp"
    /\ Writes(lastCall, "drawingCanvas") = 1
    /\ canvas["drawingCanvas"] # Cleared
    /\ nEvents >= 3

\* C2: a pointer-down the ellipse tool receives while Dragging is ignored:
\* the anchor, the second point and both surfaces stay as they were.
C2_DuplicateDownIgnored ==
    [][ (Ran("EllipseTool.onMouseDown") /\ firstPoint # Null)
        => /\ firstPoint' = firstPoint
           /\ secondPoint' = secondPoint
           /\ canvas' = canvas ]_vars

\* C3: a pointer-down the free-hand tool receives while Dragging changes
\* neither lastPosition nor any surface, and touches no canvas.
C3_FreeHandDuplicateDownIgnored ==
    [][ (Ran("FreeHandTool.onMouseDown") /\ lastPosition # Null)
        => /\ lastPosition' = lastPosition
           /\ canvas' = canvas
           /\ lastCall'.accesses = <<>>
           /\ ~lastCall'.threw ]_vars

\* a pointer-down at another position was ignored: the anchor is not there
C3_Witness ==
    /\ lastCall.handler = "FreeHandTool.onMouseDown"
    /\ lastPosition # Null
    /\ lastPosition # EventPoint(lastCall)

\* C4: a pointer-up or pointer-move received while Idle, by either tool,
\* leaves both surfaces and the gesture state unchanged and throws nothing.
C4_IdleUpMoveIgnored ==
    [][ (\/ ((Ran("EllipseTool.onMouseUp") \/ Ran("EllipseTool.onMouseMove"))
             /\ firstPoint = Null)
         \/ ((Ran("FreeHandTool.onMouseUp") \/ Ran("FreeHandTool.onMouseMove"))
             /\ lastPosition = Null))
        => /\ canvas' = canvas
           /\ firstPoint' = firstPoint
           /\ secondPoint' = secondPoint
           /\ lastPosition' = lastPosition
           /\ lastCall'.accesses = <<>>
           /\ ~lastCall'.threw ]_vars

\* a stray pointer-up after a completed gesture left the drawing in place
C4_Witness ==
    /\ lastCall.handler = "EllipseTool.onMouseUp"
    /\ lastCall.accesses = <<>>
    /\ firstPoint = Null
    /\ canvas["drawingCanvas"] # Cleared

\* C5: pointer-down while Idle anchors the gesture at the floored position,
\* moves keep the anchor, and pointer-up while Dragging draws on the drawing
\* canvas the ellipse of the anchor and the floored release position
\* (whatever secondPoint a move left), clears the preview and resets both
\* points to null.
C5_CommitUsesReleasePosition ==
    [][ /\ (Ran("EllipseTool.onMouseDown") /\ firstPoint = Null)
           => firstPoint' = EventPoint(lastCall')
        /\ (Ran("EllipseTool.onMouseMove") /\ firstPoint # Null)
           => /\ firstPoint' = firstPoint
              /\ canvas'["drawingCanvas"] = canvas["drawingCanvas"]
        /\ (Ran("EllipseTool.onMouseUp") /\ firstPoint # Null)
           => /\ canvas'["drawingCanvas"] =
                    Paint(canvas["drawingCanvas"],
                          EllipsePixels(firstPoint, EventPoint(lastCall')), Black)
              /\ canvas'["workingCanvas"] = Cleared
              /\ firstPoint' = Null
              /\ secondPoint' = Null ]_vars

\* a gesture was released and committed a shape of several pixels
C5_Witness ==
    /\ lastCall.handler = "EllipseTool.onMouseUp"
    /\ lastCall.accesses # <<>>
    /\ firstPoint = Null /\ secondPoint = Null
    /\ canvas["workingCanvas"] = Cleared
    /\ Cardinality(BlackPixels(canvas["drawingCanvas"])) >= 4

\* C6: whenever the ellipse tool is Idle the preview canvas is fully cleared.
C6_PreviewClearedWhenIdle ==
    firstPoint = Null => canvas["workingCanvas"] = Cleared

\* the tool is Idle again after a release that cleared the preview
C6_Witness ==
    /\ lastCall.handler = "EllipseTool.onMouseUp"
    /\ Writes(lastCall, "workingCanvas") = 1
    /\ firstPoint = Null
    /\ canvas["workingCanvas"] = Cleared
    /\ nEvents >= 3

\* C7: each free-hand pointer-move while Dragging draws on the drawing canvas
\* the segment from lastPosition to the floored current position and makes
\* that position the new lastPosition; the release at the position of the
\* preceding move adds nothing; no free-hand handler touches the preview.
C7_FreeHandChain ==
    [][ /\ (Ran("FreeHandTool.onMouseMove") /\ lastPosition # Null)
           => /\ canvas'["drawingCanvas"] =
                    Paint(canvas["drawingCanvas"],
                          LinePixels(lastPosition, EventPoint(lastCall')), Black)
              /\ lastPosition' = EventPoint(lastCall')
        /\ (/\ Ran("FreeHandTool.onMouseUp")
            /\ lastCall.handler = "FreeHandTool.onMouseMove"
            /\ lastPosition # Null
            /\ EventPoint(lastCall') = lastPosition)
           => /\ canvas'["drawingCanvas"] = canvas["drawingCanvas"]
              /\ lastPosition' = Null
        /\ (Ran("FreeHandTool.onMouseDown") \/ Ran("FreeHandTool.onMouseMove")
            \/ Ran("FreeHandTool.onMouseUp"))
           => /\ canvas'["workingCanvas"] = canvas["workingCanvas"]
              /\ Touches(lastCall', "workingCanvas") = 0 ]_vars

\* a stroke of a pointer-down, a move and a release has been drawn
C7_Witness ==
    /\ lastCall.handler = "FreeHandTool.onMouseUp"
    /\ lastCall.accesses # <<>>
    /\ lastPosition = Null
    /\ nEvents >= 3
    /\ Cardinality(BlackPixels(canvas["drawingCanvas"])) >= 3

\* C8 as stated: a free-hand pointer-up while Dragging draws no segment of
\* its own: whatever the release position, it leaves the drawing canvas as
\* the preceding pointer-move left it.
C8_ReleaseDrawsNothing ==
    [][ (/\ Ran("FreeHandTool.onMouseUp")
         /\ lastCall.handler = "FreeHandTool.onMouseMove"
         /\ lastPosition # Null)
        => canvas'["drawingCanvas"] = canvas["drawingCanvas"] ]_vars

\* C8 as amended: a free-hand pointer-up while Dragging first acts as a
\* pointer-move to the release position (it draws the segment from
\* lastPosition to the floored release position on the drawing canvas) and
\* then resets lastPosition to null; the preview canvas is not touched.
C8_ReleaseDrawsLastSegment ==
    [][ (Ran("FreeHandTool.onMouseUp") /\ lastPosition # Null)
        => /\ canvas'["drawingCanvas"] =
                 Paint(canvas["drawingCanvas"],
                       LinePixels(lastPosition, EventPoint(lastCall')), Black)
           /\ Writes(lastCall', "drawingCanvas") = 1
           /\ canvas'["workingCanvas"] = canvas["workingCanvas"]
           /\ lastPosition' = Null ]_vars

\* a release right after the pointer-down has drawn a segment of its own
C8_Witness ==
    /\ lastCall.handler = "FreeHandTool.onMouseUp"
    /\ nEvents = 2
    /\ lastPosition = Null
    /\ Cardinality(BlackPixels(canvas["drawingCanvas"])) >= 2

\* C9: InverseColorEffect.apply() with no selected layer touches no canvas,
\* changes nothing and throws nothing; with a selected layer it reads that
\* layer's canvas once, writes the inverted data back to it once, and leaves
\* every other canvas unchanged.
C9_ApplyOnSelectedLayerOnly ==
    [][ Ran("InverseColorEffect.apply")
        => /\ ~lastCall'.threw
           /\ selectedLayer = Null
              => /\ lastCall'.accesses = <<>>
                 /\ canvas' = canvas
           /\ selectedLayer # Null
              => /\ lastCall'.accesses =
                      <<Get(selectedLayer.canvas), Set(selectedLayer.canvas)>>
                 /\ canvas'[selectedLayer.canvas] =
                      ColorEffects_inverseColors(canvas[selectedLayer.canvas])
                 /\ \A id \in CanvasIds \ {selectedLayer.canvas} :
                      canvas'[id] = canvas[id] ]_vars

\* the effect has been applied with no layer selected
C9_Witness ==
    /\ lastCall.handler = "InverseColorEffect.apply"
    /\ selectedLayer = Null
    /\ lastCall.accesses = <<>>
    /\ nEvents >= 1

\* C10: after an odd number of applications every pixel of the selected
\* layer has R, G, B replaced by 255 minus the initial channel and the
\* initial alpha; after an even number the layer holds its initial buffer.
C10_InverseTwiceRestores ==
    selectedLayer # Null =>
        LET now == canvas[selectedLayer.canvas]
            was == initialCanvas[selectedLayer.canvas]
        IN  /\ nEvents % 2 = 1
               => \A p \in Pixels :
                    now[p] = <<255 - was[p][1], 255 - was[p][2],
                               255 - was[p][3], was[p][4]>>
            /\ nEvents % 2 = 0 => now = was

\* a translucent coloured layer has been inverted twice
C10_Witness ==
    /\ selectedLayer # Null
    /\ nEvents = 2
    /\ lastCall.handler = "InverseColorEffect.apply"
    /\ canvas[selectedLayer.canvas][<<0, 0>>] = <<1, 128, 254, 7>>
    /\ canvas[selectedLayer.canvas] = initialCanvas[selectedLayer.canvas]


(***************************************************************************)
(* Behaviours of the coordinate mapping on a scaled canvas                 *)
(***************************************************************************)
\* bounding rectangle of a canvas displayed at scale times its backing size
ScaledRect(scale) ==
    [left |-> RectLeft, top |-> RectTop,
     right |-> RectLeft + scale * CanvasWidth,
     bottom |-> RectTop + scale * CanvasHeight]

\* pointer events anywhere on the displayed rectangle, edges included
DisplayedEvents(rect) ==
    [clientX : SubPixel * rect.left .. SubPixel * rect.right,
     clientY : SubPixel * rect.top .. SubPixel * rect.bottom]

InitCoordinates ==
    /\ canvas = [id \in CanvasIds |-> Cleared]
    /\ initialCanvas = canvas
    /\ canvasBoundingRect \in { ScaledRect(scale) : scale \in 1 .. MaxScale }
    /\ selectedLayer = Null
    /\ activeTool = "EllipseTool"
    /\ firstPoint = Null
    /\ secondPoint = Null
    /\ lastPosition = Null
    /\ lastCall = Call("constructor", Null, <<>>, FALSE)
    /\ nEvents = 0
    /\ coordinates = Null
    /\ registeredHandlers =
         Effect_registerEvents(eventHandlers(activeTool), CanvasHandlers)
    /\ handlersBefore = CanvasHandlers

GetMouseEventCoordinates ==
    \E event \in DisplayedEvents(canvasBoundingRect) :
        /\ nEvents < MaxEvents
        /\ nEvents' = nEvents + 1
        /\ coordinates' = Canvas_getMouseEventCoordinates(event)
        /\ lastCall' = Call("Canvas.getMouseEventCoordinates", event, <<>>, FALSE)
        /\ UNCHANGED <<canvas, canvasBoundingRect, selectedLayer, activeTool,
                       firstPoint, secondPoint, lastPosition, initialCanvas,
                       registeredHandlers, handlersBefore>>

NextCoordinates == GetMouseEventCoordinates

SpecCoordinates == InitCoordinates /\ [][NextCoordinates]_vars

\* C11: a pointer at client offset d from the left/top edge of a canvas
\* displayed at s times its backing size maps to the buffer coordinate d / s
\* (compared as exact fractions, s = displayed width / backing width).
C11_CoordinatesDividedByScale ==
    lastCall.handler = "Canvas.getMouseEventCoordinates" =>
        LET rect == canvasBoundingRect
            dxNum == lastCall.event.clientX - SubPixel * rect.left
            dyNum == lastCall.event.clientY - SubPixel * rect.top
        IN  \* d / s = (dNum / SubPixel) * backing / displayed
            /\ coordinates.x[1] * (SubPixel * (rect.right - rect.left))
                 = coordinates.x[2] * (dxNum * CanvasWidth)
            /\ coordinates.y[1] * (SubPixel * (rect.bottom - rect.top))
                 = coordinates.y[2] * (dyNum * CanvasHeight)


(***************************************************************************)
(* Behaviours of event registration                                        *)
(***************************************************************************)
\* only the canvases have registered their handlers
InitEvents ==
    /\ canvas = [id \in CanvasIds |-> Cleared]
    /\ initialCanvas = canvas
    /\ canvasBoundingRect = Canvas_updateBoundingRect
    /\ selectedLayer \in Layers \cup {Null}
    /\ activeTool \in Tools
    /\ firstPoint = Null
    /\ secondPoint = Null
    /\ lastPosition = Null
    /\ lastCall = Call("constructor", Null, <<>>, FALSE)
    /\ nEvents = 0
    /\ coordinates = Null
    /\ registeredHandlers = CanvasHandlers
    /\ handlersBefore = CanvasHandlers

RegisterEvents ==
    \E owner \in Owners :
        /\ nEvents < MaxEvents
        /\ nEvents' = nEvents + 1
        /\ handlersBefore' = registeredHandlers
        /\ registeredHandlers' =
             Effect_registerEvents(eventHandlers(owner), registeredHandlers)
        /\ lastCall' = Call("registerEvents", [owner |-> owner], <<>>, FALSE)
        /\ UNCHANGED <<canvas, canvasBoundingRect, selectedLayer, activeTool,
                       firstPoint, secondPoint, lastPosition, initialCanvas,
                       coordinates>>

UnregisterEvents ==
    \E owner \in Owners :
        /\ nEvents < MaxEvents
        /\ nEvents' = nEvents + 1
        /\ registeredHandlers' =
             Effect_unregisterEvents(eventHandlers(owner), registeredHandlers)
        /\ lastCall' = Call("unregisterEvents", [owner |-> owner], <<>>, FALSE)
        /\ UNCHANGED <<canvas, canvasBoundingRect, selectedLayer, activeTool,
                       firstPoint, secondPoint, lastPosition, initialCanvas,
                       coordinates, handlersBefore>>

NextEvents == RegisterEvents \/ UnregisterEvents

SpecEvents == InitEvents /\ [][NextEvents]_vars

\* the handlers a call of registerEvents / unregisterEvents was about
Declared(call) == Range(eventHandlers(call.event.owner))

\* C12 as stated: after registerEvents every declared handler is registered;
\* after a following unregisterEvents none of them is, and the registered
\* set is what it was before the registerEvents call.
C12_RegisterUnregisterRestores ==
    [][ /\ Ran("registerEvents")
           => Declared(lastCall') \subseteq registeredHandlers'
        /\ (/\ Ran("unregisterEvents")
            /\ lastCall.handler = "registerEvents"
            /\ lastCall.event = lastCall'.event)
           => /\ Declared(lastCall') \cap registeredHandlers' = {}
              /\ registeredHandlers' = handlersBefore ]_vars

\* C12 as amended: registerEvents adds exactly the declared handlers,
\* a following unregisterEvents removes exactly them, and the registered set
\* is what it was before the registerEvents call whenever none of the
\* declared handlers was registered before that call.
C12_RegisterUnregisterRestoresFresh ==
    [][ /\ Ran("registerEvents")
           => registeredHandlers' = registeredHandlers \cup Declared(lastCall')
        /\ (/\ Ran("unregisterEvents")
            /\ lastCall.handler = "registerEvents"
            /\ lastCall.event = lastCall'.event)
           => /\ Declared(lastCall') \cap registeredHandlers' = {}
              /\ registeredHandlers' = handlersBefore \ Declared(lastCall')
              /\ Declared(lastCall') \cap handlersBefore = {}
                 => registeredHandlers' = handlersBefore ]_vars

\* a tool's three handlers were registered afresh and then unregistered
C12_Witness ==
    /\ lastCall.handler = "unregisterEvents"
    /\ lastCall.event.owner = "EllipseTool"
    /\ nEvents = 2
    /\ registeredHandlers = handlersBefore
    /\ registeredHandlers = CanvasHandlers


(***************************************************************************)
(* Further properties of the tools                                         *)
(***************************************************************************)
\* C13: after a pointer-move of the ellipse tool while Dragging the preview
\* canvas holds the ellipse of the anchor and the floored pointer position
\* on an otherwise cleared surface, and the tool is still Dragging with the
\* same anchor.
C13_PreviewHoldsCurrentEllipseOnly ==
    [][ (Ran("EllipseTool.onMouseMove") /\ firstPoint # Null)
        => /\ canvas'["workingCanvas"] =
                 Paint(Cleared, EllipsePixels(firstPoint, EventPoint(lastCall')), Black)
           /\ secondPoint' = EventPoint(lastCall')
           /\ firstPoint' = firstPoint ]_vars

\* a move back to the anchor, after an earlier event of the gesture, left a
\* preview of one pixel
C13_Witness ==
    /\ lastCall.handler = "EllipseTool.onMouseMove"
    /\ firstPoint # Null
    /\ secondPoint = firstPoint
    /\ nEvents >= 3
    /\ Cardinality(BlackPixels(canvas["workingCanvas"])) = 1

\* the ellipse tool handler that ran reached Ellipse.drawFromBoundingRect
CalledEllipseDraw(call) ==
    /\ call.handler \in {"EllipseTool.onMouseUp", "EllipseTool.onMouseMove"}
    /\ \E i \in DOMAIN call.accesses : call.accesses[i][1] = "getImageData"

\* the free-hand tool handler that ran reached Line.draw
CalledLineDraw(call) ==
    /\ call.handler \in {"FreeHandTool.onMouseUp", "FreeHandTool.onMouseMove"}
    /\ \E i \in DOMAIN call.accesses : call.accesses[i][1] = "getImageData"

\* C14: whenever the ellipse tool reaches Ellipse.drawFromBoundingRect its
\* firstPoint is non-null and the second point it passes is non-null,
\* whenever the free-hand tool reaches Line.draw its lastPosition is
\* non-null, so neither call throws; and secondPoint is non-null only while
\* firstPoint is non-null.
C14_NullSafe ==
    [][ /\ CalledEllipseDraw(lastCall')
           => /\ firstPoint # Null
              /\ ~lastCall'.threw
              /\ Ran("EllipseTool.onMouseMove") => secondPoint' # Null
        /\ CalledLineDraw(lastCall')
           => /\ lastPosition # Null
              /\ ~lastCall'.threw
        /\ ~lastCall'.threw
        /\ secondPoint' # Null => firstPoint' # Null ]_vars

\* after several events the ellipse primitive was called with both
\* points set
C14_Witness ==
    /\ CalledEllipseDraw(lastCall)
    /\ ~lastCall.threw
    /\ secondPoint # Null /\ firstPoint # Null
    /\ nEvents >= 3

\* C15: after any pointer-up the tool is Idle (firstPoint and lastPosition
\* are null), and the pointer-down that follows a pointer-up anchors the new
\* gesture at its own floored position.
C15_UpReturnsToIdle ==
    [][ /\ (Ran("EllipseTool.onMouseUp") \/ Ran("FreeHandTool.onMouseUp"))
           => /\ firstPoint' = Null
              /\ secondPoint' = Null
              /\ lastPosition' = Null
        /\ (Ran("EllipseTool.onMouseDown") /\ lastCall.handler = "EllipseTool.onMouseUp")
           => firstPoint' = EventPoint(lastCall')
        /\ (Ran("FreeHandTool.onMouseDown") /\ lastCall.handler = "FreeHandTool.onMouseUp")
           => lastPosition' = EventPoint(lastCall') ]_vars

\* a second free-hand gesture has started after the release of a first one
C15_Witness ==
    /\ lastCall.handler = "FreeHandTool.onMouseDown"
    /\ lastPosition = EventPoint(lastCall)
    /\ nEvents >= 3
    /\ BlackPixels(canvas["drawingCanvas"]) # {}
    /\ PixelOf(lastPosition) \notin BlackPixels(canvas["drawingCanvas"])

\* C16: the effect leaves the ellipse tool's points and the preview canvas
\* alone, and a pointer-up that follows an effect applied to the drawing
\* canvas in mid-gesture draws the ellipse on the transformed surface.
C16_EffectDuringGesture ==
    [][ /\ Ran("InverseColorEffect.apply")
           => /\ firstPoint' = firstPoint
              /\ secondPoint' = secondPoint
              /\ canvas'["workingCanvas"] = canvas["workingCanvas"]
              /\ (selectedLayer # Null /\ selectedLayer.canvas = "drawingCanvas")
                 => \A p \in Pixels :
                      canvas'["drawingCanvas"][p] =
                        <<255 - canvas["drawingCanvas"][p][1],
                          255 - canvas["drawingCanvas"][p][2],
                          255 - canvas["drawingCanvas"][p][3],
                          canvas["drawingCanvas"][p][4]>>
        /\ (/\ Ran("EllipseTool.onMouseUp")
            /\ lastCall.handler = "InverseColorEffect.apply"
            /\ firstPoint # Null)
           => \A p \in Pixels :
                canvas'["drawingCanvas"][p] =
                  IF p \in EllipsePixels(firstPoint, EventPoint(lastCall'))
                  THEN Black
                  ELSE canvas["drawingCanvas"][p] ]_vars

\* the effect has just inverted the drawing canvas in mid-gesture: the tool
\* is Dragging with its preview drawn
C16_Witness ==
    /\ lastCall.handler = "InverseColorEffect.apply"
    /\ selectedLayer # Null /\ selectedLayer.canvas = "drawingCanvas"
    /\ firstPoint # Null /\ secondPoint # Null
    /\ canvas["workingCanvas"] # Cleared
    /\ \E p \in Pixels : canvas["drawingCanvas"][p] = <<255, 255, 255, 0>>


(***************************************************************************)
(* Behaviours of Canvas.drawCanvas                                         *)
(***************************************************************************)
\* source-over compositing of one 8-bit RGBA pixel over another
Over(src, dst) ==
    LET sa == src[4]
        da == (dst[4] * (255 - sa)) \div 255
        oa == sa + da
        Ch(k) == (src[k] * sa + dst[k] * da) \div oa
    IN  IF oa = 0 THEN Transparent ELSE <<Ch(1), Ch(2), Ch(3), oa>>

\* context.drawImage(image, dx, dy): the image's pixels are composited with
\* their top-left corner at (dx, dy); what falls outside is clipped
Context_drawImage(dst, image, dx, dy) ==
    [p \in Pixels |->
        IF <<p[1] - dx, p[2] - dy>> \in Pixels
        THEN Over(image[<<p[1] - dx, p[2] - dy>>], dst[p])
        ELSE dst[p]]

\* Canvas.drawCanvas(canvas) on the contents c
Canvas_drawCanvas(c, this, other) ==
    [c EXCEPT ![this] = Context_drawImage(c[this], c[other], CanvasWidth, CanvasHeight)]

DrawCanvas ==
    \E this \in CanvasIds, other \in CanvasIds :
        /\ this # other
        /\ nEvents < MaxEvents
        /\ nEvents' = nEvents + 1
        /\ canvas' = Canvas_drawCanvas(canvas, this, other)
        /\ lastCall' = Call("Canvas.drawCanvas", [this |-> this, other |-> other],
                            <<>>, FALSE)
        /\ UNCHANGED <<canvasBoundingRect, selectedLayer, activeTool, firstPoint,
                       secondPoint, lastPosition, initialCanvas, coordinates,
                       registeredHandlers, handlersBefore>>

NextDrawCanvas == DrawCanvas

SpecDrawCanvas == InitEffect /\ [][NextDrawCanvas]_vars

\* C17: after drawCanvas(other) every pixel position of this canvas shows
\* the other canvas' pixel at the same position composited over what this
\* canvas held.
C17_DrawCanvasCopiesInPlace ==
    [][ Ran("Canvas.drawCanvas")
        => \A p \in Pixels :
             canvas'[lastCall'.event.this][p] =
               Over(canvas[lastCall'.event.other][p], canvas[lastCall'.event.this][p]) ]_vars

====
